---- MODULE Spec2Model ----
(***************************************************************************)
(* A model of .github/scripts/slack-user-lookup.js: the GitHub-actor to    *)
(* Slack-user resolver (findSlackUser), the profile picker                 *)
(* (getSlackUserProfile), the mention processor (processMentions), the     *)
(* image extraction (extractAndConvertImages) and the three block          *)
(* builders; and of the job check_file_changed of                          *)
(* .github/workflows/check-file-changed.yml.                               *)
(*                                                                         *)
(* JavaScript strings on which the code runs string operations (regular    *)
(* expressions, toLowerCase, includes, trim) are sequences of one-character *)
(* strings, so that those operations are computed character by character.  *)
(* An absent (null or undefined) object is Null and an absent string is    *)
(* Undefined: TLC compares records with records and sequences with         *)
(* sequences only.                                                         *)
(***************************************************************************)
EXTENDS Integers, Sequences, FiniteSets, TLC

VARIABLES
    \* findSlackUser
    pc,             \* position in findSlackUser: the tier about to run, or "done"
    githubUsername, \* params.githubUsername
    userMapping,    \* params.userMapping
    githubUser,     \* data of github.rest.users.getByUsername, Null before it
    resp,           \* what each external call answered in this invocation
    calls,          \* the external calls issued, in order
    warnings,       \* core.warning calls, in order
    infos,          \* core.info calls, in order
    result,         \* the value findSlackUser returned
    raised,         \* TRUE when an exception left findSlackUser
    \* getSlackUserProfile
    slackUser,      \* the argument
    profile,        \* the returned SlackUserProfile
    \* processMentions
    text,           \* params.text
    mentions,       \* [...text.matchAll(mentionPattern)], the captured usernames
    mi,             \* number of mentions the for loop has handled
    processedText,  \* let processedText
    resolved,       \* per username, the id of the user findSlackUser returns for it, or Undefined
    \* extractAndConvertImages and the block builders
    body,           \* the body text handed to the builder
    items,          \* how body was written: the pieces it is made of
    builder,        \* which function ran on body, "none" before any
    extracted,      \* what extractAndConvertImages returned, Null before
    blocks,         \* the blocks the builder returned
    \* the check_file_changed job of check-file-changed.yml
    jobStep,        \* the step about to be considered, or "end"
    filePath,       \* inputs.filePath
    hasPullRequest, \* whether context.payload has a pull_request
    diffResponse,   \* what github.request(diff_url) and parse gave, Null before
    outputs,        \* the outputs of the step diff-result
    stepsRun,       \* the steps that ran, in order
    jobWarnings,    \* core.warning calls of the job, in order
    jobFailed       \* TRUE once a step has failed

resolverVars == <<pc, githubUsername, userMapping, githubUser, resp, calls,
                  warnings, infos, result, raised>>
profileVars  == <<slackUser, profile>>
mentionVars  == <<text, mentions, mi, processedText, resolved>>
blockVars    == <<body, items, builder, extracted, blocks>>
workflowVars == <<jobStep, filePath, hasPullRequest, diffResponse, outputs,
                  stepsRun, jobWarnings, jobFailed>>
vars == <<resolverVars, profileVars, mentionVars, blockVars, workflowVars>>

Null == [null |-> TRUE]
Undefined == <<"undefined">>

\* The parts of the program a specification does not exercise stay as
\* constructed.
IdleResolver ==
    /\ pc = "idle" /\ githubUsername = Undefined /\ userMapping = Null
    /\ githubUser = Null /\ resp = Null /\ calls = <<>> /\ warnings = <<>>
    /\ infos = <<>> /\ result = Null /\ raised = FALSE
IdleProfile == slackUser = Null /\ profile = Null
IdleMentions ==
    /\ text = <<>> /\ mentions = <<>> /\ mi = 0 /\ processedText = <<>>
    /\ resolved = <<>>
IdleBlocks ==
    /\ body = <<>> /\ items = <<>> /\ builder = "idle" /\ extracted = Null
    /\ blocks = <<>>
IdleWorkflow ==
    /\ jobStep = "idle" /\ filePath = "" /\ hasPullRequest = FALSE
    /\ diffResponse = Null /\ outputs = Null /\ stepsRun = <<>>
    /\ jobWarnings = <<>> /\ jobFailed = FALSE

----------------------------------------------------------------------------
(* Strings.                                                                *)

\* String.prototype.toLowerCase on one character of the model's alphabet.
LowerChar(c) ==
    CASE c = "A" -> "a" [] c = "B" -> "b" [] c = "I" -> "i" [] c = "M" -> "m"
      [] c = "G" -> "g" [] c = "O" -> "o" [] c = "S" -> "s" [] c = "R" -> "r"
      [] c = "C" -> "c" [] c = "L" -> "l" [] c = "T" -> "t" [] c = "U" -> "u"
      [] OTHER -> c

toLowerCase(s) == [i \in 1..Len(s) |-> LowerChar(s[i])]

\* s.includes(t)
includes(s, t) ==
    \E i \in 0..(Len(s) - Len(t)) : SubSeq(s, i + 1, i + Len(t)) = t

\* JavaScript truthiness of a string-or-undefined value.
Truthy(v) == v # Undefined /\ v # <<>>

----------------------------------------------------------------------------
(* findSlackUser.                                                          *)

bob == <<"b", "o", "b">>
Amy == <<"A", "m", "y">>
Usernames == {bob, Amy}

U1 == <<"U", "1">>
U2 == <<"U", "2">>
U3 == <<"U", "3">>
U4 == <<"U", "4">>

NoProfile == [display_name |-> Undefined, image_original |-> Undefined,
              image_512 |-> Undefined, image_192 |-> Undefined,
              image_72 |-> Undefined]

\* A SlackUser (the typedef): profile is Null or a record of optional strings.
Member(id, name, real_name, display_name, deleted, is_bot) ==
    [id |-> id, name |-> name, real_name |-> real_name,
     profile |-> IF display_name = Undefined THEN Null
                 ELSE [NoProfile EXCEPT !.display_name = display_name],
     deleted |-> deleted, is_bot |-> is_bot]

\* The workspace's members: a person whose real name holds "bob", a person
\* known by handle only, a deleted account and a bot.
Directory ==
    { Member(U1, <<"r", "b">>, <<"B", "o", "b", "b", "y">>, <<>>, FALSE, FALSE),
      Member(U2, <<"a", "m", "y">>, Undefined, Undefined, FALSE, FALSE),
      Member(U3, bob, <<"B", "o", "b">>, <<"b", "o", "b">>, TRUE, FALSE),
      Member(U4, <<"a", "m", "y">>, <<"A", "m", "y">>, <<"A", "m", "y">>, FALSE, TRUE) }

\* The values of params.userMapping: absent, a text that is not JSON, the
\* JSON text null, and JSON objects from usernames to Slack ids.
MappingObjects ==
    { [kind |-> "object", entries |-> e] :
        e \in { <<>>, <<<<bob, U1>>>>, <<<<Amy, U2>>>>, <<<<bob, U2>>, <<Amy, <<>>>>>> } }
Mappings ==
    {Null, [kind |-> "malformed"], [kind |-> "null"]} \cup MappingObjects

\* JSON.parse(userMapping): throws on a malformed text.
JSONparse(doc) ==
    IF doc.kind = "malformed" THEN [threw |-> TRUE, value |-> Null]
    ELSE IF doc.kind = "null" THEN [threw |-> FALSE, value |-> Null]
    ELSE [threw |-> FALSE, value |-> doc]

\* mapping[githubUsername] on a parsed object: the entry's value or undefined.
Lookup(mapping, username) ==
    LET hit == { i \in 1..Len(mapping.entries) : mapping.entries[i][1] = username }
    IN  IF hit = {} THEN Undefined
        ELSE mapping.entries[CHOOSE i \in hit : \A j \in hit : j <= i][2]

\* What a Slack call that returns one user can answer: the fetch (or its
\* json()) throws, or a body with ok and user.
UserResponses ==
    { [threw |-> TRUE, ok |-> FALSE, user |-> Null],
      [threw |-> FALSE, ok |-> FALSE, user |-> Null],
      [threw |-> FALSE, ok |-> TRUE, user |-> Null] }
    \cup { [threw |-> FALSE, ok |-> TRUE, user |-> u] : u \in Directory }

GithubNames == {Undefined, <<"B", "o", "b">>}
GithubEmails == {Undefined, <<"e">>}

\* What github.rest.users.getByUsername can answer for username.
GithubResponses(username) ==
    { [threw |-> TRUE, data |-> Null] }
    \cup { [threw |-> FALSE,
            data |-> [login |-> username, name |-> n, email |-> e]] :
           n \in GithubNames, e \in GithubEmails }

MaxMembers == 2

MemberLists ==
    UNION { [1..n -> Directory] : n \in 0..MaxMembers }

\* What users.list can answer: members is Null when the body has none.
ListResponses ==
    { [threw |-> TRUE, ok |-> FALSE, members |-> Null],
      [threw |-> FALSE, ok |-> FALSE, members |-> Null],
      [threw |-> FALSE, ok |-> TRUE, members |-> Null] }
    \cup { [threw |-> FALSE, ok |-> TRUE, members |-> [list |-> m]] : m \in MemberLists }

NoResponse == [none |-> TRUE]

\* userData.ok && userData.user
UserMatched(r) == r.ok /\ r.user # Null

\* The predicate of listData.members.find.
NameMatches(member, githubName, username) ==
    /\ ~member.deleted
    /\ ~member.is_bot
    /\ \/ /\ member.real_name # Undefined
          /\ includes(toLowerCase(member.real_name), toLowerCase(githubName))
       \/ /\ member.profile # Null
          /\ member.profile.display_name # Undefined
          /\ includes(toLowerCase(member.profile.display_name), toLowerCase(githubName))
       \/ /\ member.name # Undefined
          /\ toLowerCase(member.name) = toLowerCase(username)

\* Array.prototype.find: the first member the predicate accepts, or Null.
find(members, githubName, username) ==
    LET hit == { i \in 1..Len(members) : NameMatches(members[i], githubName, username) }
    IN  IF hit = {} THEN Null
        ELSE members[CHOOSE i \in hit : \A j \in hit : i <= j]

\* The outer catch left out: the exception leaves findSlackUser.
OuterRethrow ==
    /\ raised' = TRUE
    /\ pc' = "done"
    /\ UNCHANGED <<warnings, result>>

\* The outer catch: the warning is logged and null is returned.
OuterCatch ==
    /\ warnings' = Append(warnings, "Failed to lookup")
    /\ result' = Null
    /\ raised' = FALSE
    /\ pc' = "done"

\* The mapping tier keeps its user without returning it: the later tiers run.
ReturnUserFallsThrough(tier, user) ==
    /\ infos' = Append(infos, tier)
    /\ result' = user
    /\ raised' = FALSE
    /\ pc' = IF tier = "manual mapping" THEN "github" ELSE "done"

\* return user, after the core.info that names the tier.
ReturnUser(tier, user) ==
    /\ infos' = Append(infos, tier)
    /\ result' = user
    /\ raised' = FALSE
    /\ pc' = "done"

\* 1. First check manual user mapping.
MappingTier ==
    /\ UNCHANGED <<profileVars, mentionVars, blockVars, workflowVars>>
    /\ pc = "mapping"
    /\ UNCHANGED <<githubUsername, userMapping, githubUser>>
    /\ IF userMapping = Null
       THEN /\ pc' = "github"
            /\ UNCHANGED <<resp, calls, warnings, infos, result, raised>>
       ELSE LET parsed == JSONparse(userMapping) IN
            IF parsed.threw \/ parsed.value = Null
            THEN \* JSON.parse threw, or mapping[githubUsername] on null did
                 /\ warnings' = Append(warnings, "Failed to parse user mapping")
                 /\ pc' = "github"
                 /\ UNCHANGED <<resp, calls, infos, result, raised>>
            ELSE LET slackUserId == Lookup(parsed.value, githubUsername) IN
                 IF ~Truthy(slackUserId)
                 THEN /\ pc' = "github"
                      /\ UNCHANGED <<resp, calls, warnings, infos, result, raised>>
                 ELSE \E r \in UserResponses :
                      /\ calls' = Append(calls, "users.info")
                      /\ resp' = [resp EXCEPT !.info = r]
                      /\ IF r.threw
                         THEN /\ warnings' = Append(warnings, "Failed to parse user mapping")
                              /\ pc' = "github"
                              /\ UNCHANGED <<infos, result, raised>>
                         ELSE IF UserMatched(r)
                         THEN /\ ReturnUser("manual mapping", r.user)
                              /\ UNCHANGED warnings
                         ELSE /\ pc' = "github"
                              /\ UNCHANGED <<warnings, infos, result, raised>>

\* 2. Get GitHub user info for fallback methods.
GithubFetch ==
    /\ UNCHANGED <<profileVars, mentionVars, blockVars, workflowVars>>
    /\ pc = "github"
    /\ UNCHANGED <<githubUsername, userMapping>>
    /\ \E r \in GithubResponses(githubUsername) :
       /\ calls' = Append(calls, "getByUsername")
       /\ resp' = [resp EXCEPT !.github = r]
       /\ IF r.threw
          THEN /\ OuterCatch
               /\ UNCHANGED <<githubUser, infos>>
          ELSE /\ githubUser' = r.data
               /\ pc' = "email"
               /\ UNCHANGED <<warnings, infos, result, raised>>

\* 3. Try email lookup.
EmailTier ==
    /\ UNCHANGED <<profileVars, mentionVars, blockVars, workflowVars>>
    /\ pc = "email"
    /\ UNCHANGED <<githubUsername, userMapping, githubUser>>
    /\ IF ~Truthy(githubUser.email)
       THEN /\ pc' = "list"
            /\ UNCHANGED <<resp, calls, warnings, infos, result, raised>>
       ELSE \E r \in UserResponses :
            /\ calls' = Append(calls, "users.lookupByEmail")
            /\ resp' = [resp EXCEPT !.email = r]
            /\ IF r.threw
               THEN /\ warnings' = Append(warnings, "Email lookup failed")
                    /\ pc' = "list"
                    /\ UNCHANGED <<infos, result, raised>>
               ELSE IF UserMatched(r)
               THEN /\ ReturnUser("email", r.user)
                    /\ UNCHANGED warnings
               ELSE /\ pc' = "list"
                    /\ UNCHANGED <<warnings, infos, result, raised>>

\* githubUser.name || githubUser.login
GithubName(user) == IF Truthy(user.name) THEN user.name ELSE user.login

\* 4. Fallback: Search by name.
NameTier ==
    /\ UNCHANGED <<profileVars, mentionVars, blockVars, workflowVars>>
    /\ pc = "list"
    /\ UNCHANGED <<githubUsername, userMapping, githubUser>>
    /\ \E r \in ListResponses :
       /\ calls' = Append(calls, "users.list")
       /\ resp' = [resp EXCEPT !.list = r]
       /\ IF r.threw
          THEN /\ OuterCatch
               /\ UNCHANGED infos
          ELSE LET found == IF r.ok /\ r.members # Null
                            THEN find(r.members.list, GithubName(githubUser), githubUsername)
                            ELSE Null
               IN  IF found # Null
                   THEN /\ ReturnUser("name", found)
                        /\ UNCHANGED warnings
                   ELSE /\ warnings' = Append(warnings, "Could not find Slack user")
                        /\ result' = Null
                        /\ pc' = "done"
                        /\ UNCHANGED <<infos, raised>>

\* A call of findSlackUser by the workflow.
InitResolver ==
    /\ pc = "mapping"
    /\ githubUsername \in Usernames
    /\ userMapping \in Mappings
    /\ githubUser = Null
    /\ resp = [info |-> NoResponse, github |-> NoResponse,
               email |-> NoResponse, list |-> NoResponse]
    /\ calls = <<>> /\ warnings = <<>> /\ infos = <<>>
    /\ result = Null /\ raised = FALSE
    /\ IdleProfile /\ IdleMentions /\ IdleBlocks /\ IdleWorkflow

NextResolver ==
    \/ MappingTier
    \/ GithubFetch
    \/ EmailTier
    \/ NameTier

SpecResolver == InitResolver /\ [][NextResolver]_vars

\* A call answered with a user: ok and user both set.
Answered(r) == r # NoResponse /\ ~r.threw /\ r.ok /\ r.user # Null

\* The mapping tier ran (a mapping was given) without returning a user.
MappingTierFailed == userMapping # Null /\ ~Answered(resp.info)

\* The email tier, which starts with the fetch of the GitHub actor, ran
\* without returning a user.
EmailTierFailed == resp.github # NoResponse /\ ~Answered(resp.email)

\* The name tier found a member of users.list.
NameTierMatched ==
    /\ resp.list # NoResponse
    /\ ~resp.list.threw /\ resp.list.ok /\ resp.list.members # Null
    /\ \E i \in 1..Len(resp.list.members.list) :
         NameMatches(resp.list.members.list[i], GithubName(githubUser), githubUsername)

\* C1: when findSlackUser has returned, a mapping tier that failed was
\* followed by the fetch of the GitHub actor, and an email tier that failed
\* anywhere (the fetch of the GitHub actor included) was followed by the
\* users.list call of the name tier.
C1_FailedTierFallsThrough ==
    pc = "done" =>
        /\ MappingTierFailed => \E i \in 1..Len(calls) : calls[i] = "getByUsername"
        /\ EmailTierFailed => \E i \in 1..Len(calls) : calls[i] = "users.list"

\* C2: findSlackUser never raises: whatever its external calls answer and
\* whatever the mapping text is, it can always take its next step until it
\* has returned, what it returns is a Slack user or null, and it is null
\* when no tier produced a match.
C2_NeverRaises ==
    /\ ~raised
    /\ pc # "done" => ENABLED NextResolver
    /\ pc = "done" =>
        /\ result = Null \/ result \in Directory
        /\ (~Answered(resp.info) /\ ~Answered(resp.email) /\ ~NameTierMatched)
               => result = Null

\* A call in which the mapping text was malformed and a later external call
\* threw has returned.
C2_Witness ==
    /\ pc = "done"
    /\ userMapping = [kind |-> "malformed"]
    /\ resp.list # NoResponse
    /\ resp.list.threw
    /\ result = Null

\* C3: when the static mapping has an entry for the username and users.info
\* answers it with a user, findSlackUser returns exactly that user and has
\* issued the users.info call only: no getByUsername, no
\* users.lookupByEmail, no users.list.
C3_MappingTakesPriority ==
    (/\ pc = "done"
     /\ userMapping \in MappingObjects
     /\ Truthy(Lookup(userMapping, githubUsername))
     /\ Answered(resp.info))
        => /\ result = resp.info.user
           /\ calls = <<"users.info">>

\* A call with a mapped username whose id users.info resolved has returned.
C3_Witness ==
    /\ pc = "done"
    /\ userMapping \in MappingObjects
    /\ Truthy(Lookup(userMapping, githubUsername))
    /\ Answered(resp.info)
    /\ result = resp.info.user

----------------------------------------------------------------------------
(* getSlackUserProfile.                                                    *)

\* a ?? b in place of a || b: an empty string is kept.
OrNullish(a, b) == IF a # Undefined THEN a ELSE b

\* a || b on optional strings.
Or(a, b) == IF Truthy(a) THEN a ELSE b

\* slackUser.profile?.field
ProfileField(user, field) ==
    IF user.profile = Null THEN Undefined ELSE user.profile[field]

getSlackUserProfile(user) ==
    IF user = Null
    THEN [username |-> <<>>, icon_url |-> <<>>, matched |-> FALSE]
    ELSE LET displayName == Or(Or(ProfileField(user, "display_name"), user.real_name),
                               user.name)
             avatar == Or(Or(Or(ProfileField(user, "image_original"),
                                ProfileField(user, "image_512")),
                             ProfileField(user, "image_192")),
                          ProfileField(user, "image_72"))
         IN  [username |-> displayName, icon_url |-> avatar, matched |-> TRUE]

\* Optional strings: absent, empty, or the given text.
Optional(s) == {Undefined, <<>>, s}

\* The Slack users handed to getSlackUserProfile: the handle (name) is the
\* one field the SlackUser typedef and Slack always give; every other field
\* is optional.
ProfileUsers ==
    { [id |-> U1, name |-> <<"h">>, real_name |-> rn, profile |-> pr,
       deleted |-> FALSE, is_bot |-> FALSE] :
        rn \in Optional(<<"r">>),
        pr \in {Null} \cup
               [display_name : Optional(<<"d">>), image_original : Optional(<<"o">>),
                image_512 : Optional(<<"5">>), image_192 : Optional(<<"1">>),
                image_72 : Optional(<<"7">>)] }

GetSlackUserProfile ==
    /\ profile = Null
    /\ profile' = getSlackUserProfile(slackUser)
    /\ UNCHANGED <<slackUser, resolverVars, mentionVars, blockVars, workflowVars>>

InitProfile ==
    /\ slackUser \in {Null} \cup ProfileUsers
    /\ profile = Null
    /\ IdleResolver /\ IdleMentions /\ IdleBlocks /\ IdleWorkflow

NextProfile == GetSlackUserProfile

SpecProfile == InitProfile /\ [][NextProfile]_vars

\* The first non-empty of the optional strings vs, or none.
IsFirstNonEmpty(v, vs) ==
    \E k \in 1..Len(vs) :
        /\ vs[k] = v
        /\ vs[k] # Undefined /\ Len(vs[k]) > 0
        /\ \A j \in 1..(k - 1) : vs[j] = Undefined \/ Len(vs[j]) = 0

NoneNonEmpty(vs) == \A k \in 1..Len(vs) : vs[k] = Undefined \/ Len(vs[k]) = 0

----------------------------------------------------------------------------
(* processMentions.                                                        *)

Letters == {"a", "b", "o", "x", "y", "m", "r", "s", "c", "l", "t", "i", "g",
            "A", "B", "U", "I", "M", "G", "S", "R", "C", "L", "T", "O"}
Digits == {"1", "2", "3", "4"}

\* [a-zA-Z0-9-]
IsMentionChar(c) == c \in Letters \cup Digits \cup {"-"}

\* \w
IsWordChar(c) == c \in Letters \cup Digits \cup {"_"}

\* \s
IsSpace(c) == c \in {" ", "\n", "\t"}

IsNewline(c) == c = "\n"

\* [^"']
NotQuote(c) == c \notin {"\"", "'"}

\* The character classes the patterns repeat.
InClass(class, c) ==
    CASE class = "mention" -> IsMentionChar(c)
      [] class = "notquote" -> NotQuote(c)
      [] class = "newline" -> IsNewline(c)

\* The last index of the run of characters of the class that starts at i
\* (i - 1 when t[i] is not of the class): a greedy repetition.
RunEnd(t, i, class) ==
    LET ends == { e \in (i - 1)..Len(t) : \A k \in i..e : InClass(class, t[k]) }
    IN  CHOOSE e \in ends : \A f \in ends : f <= e

\* [...text.matchAll(/@([a-zA-Z0-9-]+)/g)], each match as its group 1.
RECURSIVE matchAllMentions(_, _)
matchAllMentions(t, i) ==
    IF i > Len(t) THEN <<>>
    ELSE IF t[i] = "@" /\ RunEnd(t, i + 1, "mention") > i
    THEN <<SubSeq(t, i + 1, RunEnd(t, i + 1, "mention"))>>
             \o matchAllMentions(t, RunEnd(t, i + 1, "mention") + 1)
    ELSE matchAllMentions(t, i + 1)

\* \b between t[j - 1] and t[j]: exactly one side is a word character.
WordBoundary(t, j) ==
    (j - 1 >= 1 /\ IsWordChar(t[j - 1])) # (j <= Len(t) /\ IsWordChar(t[j]))

\* new RegExp(`@${username}\\b`) matches t at i.
MentionAt(t, i, username) ==
    LET pat == <<"@">> \o username
    IN  /\ i + Len(pat) - 1 <= Len(t)
        /\ SubSeq(t, i, i + Len(pat) - 1) = pat
        /\ WordBoundary(t, i + Len(pat))

\* t.replace(new RegExp(`@${username}\\b`, 'g'), tag), from index i on.
RECURSIVE replaceMention(_, _, _, _)
replaceMention(t, i, username, tag) ==
    IF i > Len(t) THEN <<>>
    ELSE IF MentionAt(t, i, username)
    THEN tag \o replaceMention(t, i + 1 + Len(username), username, tag)
    ELSE <<t[i]>> \o replaceMention(t, i + 1, username, tag)

\* `<@${slackUser.id}>`
SlackTag(id) == <<"<", "@">> \o id \o <<">">>

\* The pieces the texts are written from.
MentionPieces ==
    { <<"@", "a">>, <<"-", "b">>, <<"@", "U", "1">>, <<" ">>, <<"_">>, <<"-">> }

MaxPieces == 3

RECURSIVE Concat(_)
Concat(ps) == IF ps = <<>> THEN <<>> ELSE Head(ps) \o Concat(Tail(ps))

MentionTexts ==
    { Concat(ps) : ps \in UNION { [1..n -> MentionPieces] : n \in 0..MaxPieces } }

Range(f) == { f[i] : i \in DOMAIN f }

\* The ids of the users findSlackUser can return.
ResolvedIds == {U1, U2}

\* The body of the for loop, for the next mention.
HandleMention ==
    /\ mi < Len(mentions)
    /\ LET username == mentions[mi + 1]
           id == resolved[username]
       IN  processedText' =
               IF id # Undefined
               THEN replaceMention(processedText, 1, username, SlackTag(id))
               ELSE processedText
    /\ mi' = mi + 1
    /\ UNCHANGED <<text, mentions, resolved, resolverVars, profileVars, blockVars, workflowVars>>

\* A call of processMentions: the mentions are matched in the text as
\* given, and findSlackUser answers each username the same way throughout.
InitMentions ==
    /\ text \in MentionTexts
    /\ mentions = matchAllMentions(text, 1)
    /\ processedText = text
    /\ mi = 0
    /\ resolved \in [Range(mentions) -> {Undefined} \cup ResolvedIds]
    /\ IdleResolver /\ IdleProfile /\ IdleBlocks /\ IdleWorkflow

NextMentions == HandleMention

SpecMentions == InitMentions /\ [][NextMentions]_vars

\* The number of mentions of username that matchAll finds in t.
MentionCount(t, username) ==
    Cardinality({ i \in 1..Len(matchAllMentions(t, 1)) :
                    matchAllMentions(t, 1)[i] = username })

\* C4: when processMentions has handled every mention, each mention whose
\* username the resolver returned no identity for is still in the output as
\* often as it was in the text, whatever the other mentions resolved to.
C4_UnresolvedMentionsStay ==
    mi = Len(mentions) =>
        \A username \in Range(mentions) :
            resolved[username] = Undefined =>
                MentionCount(processedText, username) >= MentionCount(text, username)

\* The number of places of t where s stands.
Occurrences(t, s) ==
    Cardinality({ i \in 1..(Len(t) - Len(s) + 1) : SubSeq(t, i, i + Len(s) - 1) = s })

\* C5: a tag <@ID> that a replacement has inserted is not modified by the
\* replacement for a later mention: from one mention to the next, no tag of
\* the text goes away.
C5_TagsAreNotRewritten ==
    [][\A id \in ResolvedIds :
         Occurrences(processedText', SlackTag(id)) >= Occurrences(processedText, SlackTag(id))]_vars

----------------------------------------------------------------------------
(* extractAndConvertImages.                                                *)

\* /<img\s+[^>]*\/?>/i matched at i: the index of the match's last
\* character, or 0 when there is no match at i. After "<img" and one white
\* space, \s+, [^>]* and \/? take characters other than ">", so the match
\* ends at the first ">" that follows.
imgTagEnd(t, i) ==
    IF /\ i + 5 <= Len(t)
       /\ t[i] = "<"
       /\ toLowerCase(SubSeq(t, i + 1, i + 3)) = <<"i", "m", "g">>
       /\ IsSpace(t[i + 4])
       /\ \E j \in (i + 5)..Len(t) : t[j] = ">"
    THEN CHOOSE j \in (i + 5)..Len(t) :
             t[j] = ">" /\ \A k \in (i + 5)..(j - 1) : t[k] # ">"
    ELSE 0

\* text.match(imgTagPattern) || [], from index i on.
RECURSIVE matchImgTags(_, _)
matchImgTags(t, i) ==
    IF i > Len(t) THEN <<>>
    ELSE IF imgTagEnd(t, i) > 0
    THEN <<SubSeq(t, i, imgTagEnd(t, i))>> \o matchImgTags(t, imgTagEnd(t, i) + 1)
    ELSE matchImgTags(t, i + 1)

\* text.replace(imgTagPattern, ''), from index i on.
RECURSIVE removeImgTags(_, _)
removeImgTags(t, i) ==
    IF i > Len(t) THEN <<>>
    ELSE IF imgTagEnd(t, i) > 0
    THEN removeImgTags(t, imgTagEnd(t, i) + 1)
    ELSE <<t[i]>> \o removeImgTags(t, i + 1)

\* imgTag.match(/name["']([^"']+)["']/i), name being src= or alt=: group 1
\* of the leftmost match, or Undefined when there is none.
attrMatch(imgTag, name) ==
    LET starts == { q \in 1..Len(imgTag) :
                      /\ q + Len(name) <= Len(imgTag)
                      /\ toLowerCase(SubSeq(imgTag, q, q + Len(name) - 1)) = name
                      /\ ~NotQuote(imgTag[q + Len(name)])
                      /\ RunEnd(imgTag, q + Len(name) + 1, "notquote") >= q + Len(name) + 1
                      /\ RunEnd(imgTag, q + Len(name) + 1, "notquote") < Len(imgTag) }
        first == CHOOSE q \in starts : \A r \in starts : q <= r
    IN  IF starts = {} THEN Undefined
        ELSE SubSeq(imgTag, first + Len(name) + 1,
                    RunEnd(imgTag, first + Len(name) + 1, "notquote"))

ImageText == <<"I", "m", "a", "g", "e">>

\* altMatch ? altMatch[1] : 'Image'
altText(imgTag) ==
    IF attrMatch(imgTag, <<"a", "l", "t", "=">>) # Undefined
    THEN attrMatch(imgTag, <<"a", "l", "t", "=">>)
    ELSE ImageText

\* The for loop over the matches: one block per tag with a src.
RECURSIVE imageBlocksOf(_)
imageBlocksOf(matches) ==
    IF matches = <<>> THEN <<>>
    ELSE LET imgTag == Head(matches)
             src == attrMatch(imgTag, <<"s", "r", "c", "=">>)
         IN  (IF src # Undefined
              THEN <<[type |-> "image", image_url |-> src, alt_text |-> altText(imgTag)]>>
              ELSE <<>>)
             \o imageBlocksOf(Tail(matches))

\* .replace(/\n{3,}/g, '\n\n'), from index i on.
RECURSIVE collapseNewlines(_, _)
collapseNewlines(t, i) ==
    IF i > Len(t) THEN <<>>
    ELSE IF t[i] = "\n"
    THEN (IF RunEnd(t, i, "newline") - i + 1 >= 3 THEN <<"\n", "\n">>
          ELSE SubSeq(t, i, RunEnd(t, i, "newline")))
         \o collapseNewlines(t, RunEnd(t, i, "newline") + 1)
    ELSE <<t[i]>> \o collapseNewlines(t, i + 1)

\* String.prototype.trim
trim(t) ==
    LET kept == { i \in 1..Len(t) : ~IsSpace(t[i]) }
    IN  IF kept = {} THEN <<>>
        ELSE SubSeq(t, CHOOSE i \in kept : \A j \in kept : i <= j,
                       CHOOSE i \in kept : \A j \in kept : j <= i)

extractAndConvertImages(t) ==
    [textWithoutImages |-> trim(collapseNewlines(removeImgTags(t, 1), 1)),
     imageBlocks |-> imageBlocksOf(matchImgTags(t, 1))]

----------------------------------------------------------------------------
(* The block builders. The parameters other than the body are written      *)
(* into the texts as they are; each stands here as one symbol, and the     *)
(* bullet character between the parts of a footer is written (bullet).     *)

Section(t) == [type |-> "section", text |-> [type |-> "mrkdwn", text |-> t]]

Context(t) == [type |-> "context", elements |-> <<[type |-> "mrkdwn", text |-> t]>>]

\* The comment builder with the section pushed whatever the text is.
buildCommentBlocksAlwaysSection(commentBody) ==
    LET ex == extractAndConvertImages(commentBody)
    IN  <<Section(ex.textWithoutImages)>>
        \o ex.imageBlocks
        \o <<Context(<<"<", "{issueUrl}", "|", "{issueTitle}", "> (bullet) <",
                       "{commentUrl}", "|View comment> (bullet) ", "{commentAuthor}">>)>>

buildCommentBlocks(commentBody) ==
    LET ex == extractAndConvertImages(commentBody)
    IN  (IF ex.textWithoutImages # <<>> THEN <<Section(ex.textWithoutImages)>> ELSE <<>>)
        \o ex.imageBlocks
        \o <<Context(<<"<", "{issueUrl}", "|", "{issueTitle}", "> (bullet) <",
                       "{commentUrl}", "|View comment> (bullet) ", "{commentAuthor}">>)>>

buildReviewRequestBlocks(prBody) ==
    LET ex == extractAndConvertImages(trim(prBody))
        descriptionText == IF ex.textWithoutImages # <<>>
                           THEN <<"\n">> \o ex.textWithoutImages
                           ELSE <<>>
    IN  <<Section(<<"New PR review requested to ", "{reviewerTag}", "\n", "*<",
                    "{prUrl}", "|", "{prTitle}", ">*">> \o descriptionText)>>
        \o ex.imageBlocks
        \o <<Context(<<"<", "{prUrl}", "|#", "{prNumber}", "> (bullet) ", "{requestSender}",
                       " requested review from ", "{requestedReviewer}">>)>>

\* The review builder with the context block pushed before the images.
buildReviewBlocksContextFirst(reviewBody) ==
    LET ex == extractAndConvertImages(reviewBody)
    IN  <<Section(<<"{reviewEmoji}", " *", "{reviewAction}", "*">>)>>
        \o <<Context(<<"<", "{prUrl}", "|", "{prTitle}", "> (bullet) <", "{reviewUrl}",
                       "|View review> (bullet) ", "{reviewer}">>)>>
        \o ex.imageBlocks

buildReviewBlocks(reviewBody) ==
    LET ex == extractAndConvertImages(reviewBody)
        mainText == IF ex.textWithoutImages # <<>>
                    THEN <<"{reviewEmoji}", " *", "{reviewAction}", "*", "\n">>
                             \o ex.textWithoutImages
                    ELSE <<"{reviewEmoji}", " *", "{reviewAction}", "*">>
    IN  <<Section(mainText)>>
        \o ex.imageBlocks
        \o <<Context(<<"<", "{prUrl}", "|", "{prTitle}", "> (bullet) <", "{reviewUrl}",
                       "|View review> (bullet) ", "{reviewer}">>)>>

\* The bodies are written from pieces: img tags, given by their source,
\* their alt text and their spelling, and plain text.
Img(open, src, alt, close) ==
    [kind |-> "img", open |-> open, src |-> src, alt |-> alt, close |-> close]
Plain(chars) == [kind |-> "text", chars |-> chars]

ImgPieces ==
    { Img(<<"<", "i", "m", "g", " ">>, <<"u">>, Undefined, <<">">>),
      Img(<<"<", "I", "M", "G", "\n">>, <<"v">>, <<"a">>, <<"/", ">">>),
      Img(<<"<", "i", "m", "g", " ">>, Undefined, <<"a">>, <<">">>),
      Img(<<"<", "i", "m", "g", " ">>, <<"u">>, <<"a", "'", "b">>, <<" ", "/", ">">>) }

PlainPieces ==
    { Plain(<<"x">>), Plain(<<" ">>), Plain(<<"\n", "\n", "\n">>),
      Plain(<<"<", "i">>),
      Plain(<<"m", "g", " ", "s", "r", "c", "=", "\"", "u", "\"", ">">>) }

\* The text of a piece: an img tag has its attributes in double quotes.
Render(piece) ==
    IF piece.kind = "text" THEN piece.chars
    ELSE piece.open
         \o (IF piece.src # Undefined
             THEN <<"s", "r", "c", "=", "\"">> \o piece.src \o <<"\"">>
             ELSE <<>>)
         \o (IF piece.src # Undefined /\ piece.alt # Undefined THEN <<" ">> ELSE <<>>)
         \o (IF piece.alt # Undefined
             THEN <<"a", "l", "t", "=", "\"">> \o piece.alt \o <<"\"">>
             ELSE <<>>)
         \o piece.close

MaxItems == 3

Bodies == UNION { [1..n -> ImgPieces \cup PlainPieces] : n \in 0..MaxItems }

ExtractAndConvertImages ==
    /\ builder = "none"
    /\ builder' = "extract"
    /\ extracted' = extractAndConvertImages(body)
    /\ UNCHANGED <<body, items, blocks, resolverVars, profileVars, mentionVars, workflowVars>>

BuildCommentBlocks ==
    /\ builder = "none"
    /\ builder' = "comment"
    /\ extracted' = extractAndConvertImages(body)
    /\ blocks' = buildCommentBlocks(body)
    /\ UNCHANGED <<body, items, resolverVars, profileVars, mentionVars, workflowVars>>

BuildReviewRequestBlocks ==
    /\ builder = "none"
    /\ builder' = "review-request"
    /\ extracted' = extractAndConvertImages(trim(body))
    /\ blocks' = buildReviewRequestBlocks(body)
    /\ UNCHANGED <<body, items, resolverVars, profileVars, mentionVars, workflowVars>>

BuildReviewBlocks ==
    /\ builder = "none"
    /\ builder' = "review"
    /\ extracted' = extractAndConvertImages(body)
    /\ blocks' = buildReviewBlocks(body)
    /\ UNCHANGED <<body, items, resolverVars, profileVars, mentionVars, workflowVars>>

InitBlocks ==
    /\ items \in Bodies
    /\ body = Concat([i \in 1..Len(items) |-> Render(items[i])])
    /\ builder = "none"
    /\ extracted = Null
    /\ blocks = <<>>
    /\ IdleResolver /\ IdleProfile /\ IdleMentions /\ IdleWorkflow

NextBlocks ==
    \/ ExtractAndConvertImages
    \/ BuildCommentBlocks
    \/ BuildReviewRequestBlocks
    \/ BuildReviewBlocks

SpecBlocks == InitBlocks /\ [][NextBlocks]_vars

\* The number of blocks of the given type.
BlockCount(bs, type) == Cardinality({ i \in 1..Len(bs) : bs[i].type = type })

\* C6 as stated: the comment builder and the review builder emit a section
\* block if and only if the text that remains after image extraction is not
\* empty, and the review-request builder emits exactly one for every input.
C6_SectionIffTextRemains ==
    /\ builder \in {"comment", "review"} =>
         BlockCount(blocks, "section") =
             (IF extracted.textWithoutImages # <<>> THEN 1 ELSE 0)
    /\ builder = "review-request" => BlockCount(blocks, "section") = 1

\* C6 as amended: the comment builder emits a section block if and only if
\* the text that remains after image extraction is not empty; the review
\* builder and the review-request builder emit exactly one section block for
\* every input, an empty or image-only body included.
C6_SectionPerBuilder ==
    /\ builder = "comment" =>
         BlockCount(blocks, "section") =
             (IF extracted.textWithoutImages # <<>> THEN 1 ELSE 0)
    /\ builder \in {"review", "review-request"} => BlockCount(blocks, "section") = 1

\* The review builder has run on an image-only body and returned a section.
C6_Witness ==
    /\ builder = "review"
    /\ extracted.textWithoutImages = <<>>
    /\ extracted.imageBlocks # <<>>
    /\ BlockCount(blocks, "section") = 1

\* C7: the blocks of each builder are at most one section block, then all
\* the image blocks extracted from the body in the order of extraction, then
\* exactly one context block: the last block is the only context block and
\* no section block stands after the first place.
C7_BlockShape ==
    builder \in {"comment", "review", "review-request"} =>
        LET images == extractAndConvertImages(body).imageBlocks
            n == Len(blocks)
            k == Len(images)
        IN  /\ n \in {k + 1, k + 2}
            /\ n = k + 2 => blocks[1].type = "section"
            /\ \A i \in 1..k : blocks[n - 1 - k + i] = images[i]
            /\ blocks[n].type = "context"
            /\ \A i \in 1..(n - 1) : blocks[i].type # "context"
            /\ \A i \in 2..n : blocks[i].type # "section"

\* The review builder has returned a section, two different images and the
\* context.
C7_Witness ==
    /\ builder = "review"
    /\ Len(blocks) = 4
    /\ blocks[1].type = "section"
    /\ blocks[2].type = "image" /\ blocks[3].type = "image"
    /\ blocks[2] # blocks[3]
    /\ blocks[4].type = "context"

\* C8: the text extractAndConvertImages returns holds no img tag the
\* recognizer matches: extracting from it again gives no image block and
\* the same text.
C8_StrippedTextHasNoTag ==
    extracted # Null =>
        /\ matchImgTags(extracted.textWithoutImages, 1) = <<>>
        /\ extractAndConvertImages(extracted.textWithoutImages) =
               [textWithoutImages |-> extracted.textWithoutImages, imageBlocks |-> <<>>]

\* The image blocks a body written from pieces is to give: one per img tag
\* with a source, in order, with the tag's alt text or "Image".
RECURSIVE ExpectedImageBlocks(_)
ExpectedImageBlocks(ps) ==
    IF ps = <<>> THEN <<>>
    ELSE (IF Head(ps).kind = "img" /\ Head(ps).src # Undefined
          THEN <<[type |-> "image", image_url |-> Head(ps).src,
                  alt_text |-> IF Head(ps).alt # Undefined THEN Head(ps).alt
                               ELSE ImageText]>>
          ELSE <<>>)
         \o ExpectedImageBlocks(Tail(ps))

\* The plain text of a body written from pieces, the img tags left out.
RECURSIVE PlainText(_)
PlainText(ps) ==
    IF ps = <<>> THEN <<>>
    ELSE (IF Head(ps).kind = "text" THEN Head(ps).chars ELSE <<>>)
         \o PlainText(Tail(ps))

\* No plain piece opens a tag: the img tags of the body are its img pieces.
TagsAreImgPieces(ps) ==
    \A i \in 1..Len(ps) :
        ps[i].kind = "text" => \A k \in 1..Len(ps[i].chars) : ps[i].chars[k] # "<"

\* C9: extractAndConvertImages returns one image block for each img tag
\* with a source, in the order of the tags, none for a tag without a source,
\* which is removed from the text all the same, and each block's alt_text is
\* the tag's alt text when it has one and "Image" otherwise.
C9_OneBlockPerSourcedTag ==
    (builder = "extract" /\ TagsAreImgPieces(items)) =>
        /\ extracted.imageBlocks = ExpectedImageBlocks(items)
        /\ extracted.textWithoutImages = trim(collapseNewlines(PlainText(items), 1))

----------------------------------------------------------------------------
(* The job check_file_changed. JavaScript values handed to core.setOutput  *)
(* are written as their literals: "true", "false", "undefined".            *)

\* The input filePath is pasted into the script between quotes: the paths
\* here hold no quote, backslash or line break.
Paths == {"a.md", "b.md"}

\* One file of parse-diff's result: its target path, and new, which
\* parse-diff sets to true on a created file and leaves out otherwise.
DiffFiles == [to : Paths \cup {"/dev/null"}, new : {"true", "undefined"}]

MaxFiles == 2

\* What the try block can get: github.request or parse throws, or the
\* files of the diff.
DiffResponses ==
    { [threw |-> TRUE, files |-> <<>>] }
    \cup { [threw |-> FALSE, files |-> fs] :
             fs \in UNION { [1..n -> DiffFiles] : n \in 0..MaxFiles } }

Unset == "(unset)"

\* core.setOutput writes the value as a string: undefined as ''.
toCommandValue(v) == IF v = "undefined" THEN "" ELSE v

\* steps.diff-result.outputs.<name>: '' when the step has not set it.
OutputValue(name) == IF outputs[name] = Unset THEN "" ELSE outputs[name]

\* files.filter(x => x.to === filePath)
fileDiff(files, path) ==
    SelectSeq(files, LAMBDA x : x.to = path)

\* The condition of the last step, read as "the output is empty".
FailStepConditionEmpty(hasBeenUpdated) == hasBeenUpdated = ""

\* steps.diff-result.outputs.hasBeenUpdated != 'true'
FailStepCondition(hasBeenUpdated) == hasBeenUpdated # "true"

\* run: npm install parse-diff
NpmInstall ==
    /\ jobStep = "install"
    /\ \E ok \in BOOLEAN : jobFailed' = ~ok
    /\ stepsRun' = Append(stepsRun, "npm install")
    /\ jobStep' = "diff"
    /\ UNCHANGED <<filePath, hasPullRequest, diffResponse, outputs, jobWarnings,
                   resolverVars, profileVars, mentionVars, blockVars>>

\* The step diff-result. It is skipped once a step has failed; reading
\* diff_url of a payload without pull_request throws before the try.
SetupFileDiffVariables ==
    /\ jobStep = "diff"
    /\ jobStep' = "gate"
    /\ UNCHANGED <<filePath, hasPullRequest, resolverVars, profileVars,
                   mentionVars, blockVars>>
    /\ IF jobFailed
       THEN UNCHANGED <<diffResponse, outputs, stepsRun, jobWarnings, jobFailed>>
       ELSE /\ stepsRun' = Append(stepsRun, "diff-result")
            /\ IF ~hasPullRequest
               THEN /\ jobFailed' = TRUE
                    /\ UNCHANGED <<diffResponse, outputs, jobWarnings>>
               ELSE \E r \in DiffResponses :
                    /\ diffResponse' = r
                    /\ UNCHANGED jobFailed
                    /\ IF r.threw
                       THEN /\ jobWarnings' = Append(jobWarnings,
                                                     "Could not completely get file diff")
                            /\ outputs' = [justBeenCreated |-> toCommandValue("false"),
                                           hasBeenUpdated |-> toCommandValue("false")]
                       ELSE /\ UNCHANGED jobWarnings
                            /\ IF Len(fileDiff(r.files, filePath)) > 0
                               THEN outputs' =
                                      [justBeenCreated |->
                                           toCommandValue(fileDiff(r.files, filePath)[1].new),
                                       hasBeenUpdated |-> toCommandValue("true")]
                               ELSE outputs' =
                                      [justBeenCreated |-> toCommandValue("false"),
                                       hasBeenUpdated |-> toCommandValue("false")]

\* The step "Fail if not new or skip otherwise": it runs when no step has
\* failed and its condition holds, and core.setFailed fails the job.
FailIfNotUpdated ==
    /\ jobStep = "gate"
    /\ jobStep' = "end"
    /\ IF ~jobFailed /\ FailStepCondition(OutputValue("hasBeenUpdated"))
       THEN /\ stepsRun' = Append(stepsRun, "has not been updated")
            /\ jobFailed' = TRUE
       ELSE UNCHANGED <<stepsRun, jobFailed>>
    /\ UNCHANGED <<filePath, hasPullRequest, diffResponse, outputs, jobWarnings,
                   resolverVars, profileVars, mentionVars, blockVars>>

\* A run of the job.
InitWorkflow ==
    /\ jobStep = "install"
    /\ filePath \in Paths
    /\ hasPullRequest \in BOOLEAN
    /\ diffResponse = Null
    /\ outputs = [justBeenCreated |-> Unset, hasBeenUpdated |-> Unset]
    /\ stepsRun = <<>>
    /\ jobWarnings = <<>>
    /\ jobFailed = FALSE
    /\ IdleResolver /\ IdleProfile /\ IdleMentions /\ IdleBlocks

NextWorkflow ==
    \/ NpmInstall
    \/ SetupFileDiffVariables
    \/ FailIfNotUpdated

SpecWorkflow == InitWorkflow /\ [][NextWorkflow]_vars

Ran(name) == \E i \in 1..Len(stepsRun) : stepsRun[i] = name

\* The diff was fetched and parsed, and one of its files targets filePath.
DiffTargetsFilePath ==
    /\ diffResponse # Null
    /\ ~diffResponse.threw
    /\ \E i \in 1..Len(diffResponse.files) : diffResponse.files[i].to = filePath

\* C11 as stated: in every run of the job the diff step has set both
\* outputs, the failing step runs exactly when hasBeenUpdated was not set to
\* true, which is when no file of the diff targets filePath or the diff
\* could not be fetched or parsed, and the job passes only if some file of
\* the diff targets filePath.
C11_EveryRunSetsOutputs ==
    jobStep = "end" =>
        /\ outputs.justBeenCreated # Unset /\ outputs.hasBeenUpdated # Unset
        /\ Ran("has not been updated") <=> outputs.hasBeenUpdated # "true"
        /\ outputs.hasBeenUpdated = "true" <=> DiffTargetsFilePath
        /\ ~jobFailed => DiffTargetsFilePath

\* The diff step ran to its end: the install succeeded and the payload had
\* a pull request.
DiffStepCompleted == Ran("diff-result") /\ hasPullRequest

\* C11 as amended: in every run in which the diff step runs to its end it
\* has set both outputs, and then the failing step runs exactly when
\* hasBeenUpdated was not set to true, which is when no file of the diff
\* targets filePath or the diff could not be fetched or parsed; in a run in
\* which the diff step is skipped or fails, no output is set, the failing
\* step is skipped and the job fails; in every run the job passes only if
\* some file of the diff targets filePath.
C11_CompletedDiffStepSetsOutputs ==
    jobStep = "end" =>
        /\ DiffStepCompleted =>
             /\ outputs.justBeenCreated # Unset /\ outputs.hasBeenUpdated # Unset
             /\ Ran("has not been updated") <=> outputs.hasBeenUpdated # "true"
             /\ outputs.hasBeenUpdated = "true" <=> DiffTargetsFilePath
        /\ ~DiffStepCompleted =>
             /\ outputs.justBeenCreated = Unset /\ outputs.hasBeenUpdated = Unset
             /\ ~Ran("has not been updated")
             /\ jobFailed
        /\ ~jobFailed => DiffTargetsFilePath

\* A run in which fetching the diff threw has ended: the warning is logged,
\* hasBeenUpdated is 'false', the failing step ran and the job failed.
C11_Witness ==
    /\ jobStep = "end"
    /\ diffResponse # Null
    /\ diffResponse.threw
    /\ jobWarnings # <<>>
    /\ outputs.hasBeenUpdated = "false"
    /\ Ran("has not been updated")
    /\ jobFailed

====
